---------------------------- MODULE Spec2Model ----------------------------
(***************************************************************************)
(* mc_nvt_hs.py: Monte Carlo, NVT ensemble, hard spheres.                  *)
(*                                                                         *)
(* The script is modelled as a sequential state machine; pc is the         *)
(* position in the script.  Real numbers are modelled on a lattice whose   *)
(* spacing is the sphere diameter sigma = 1: the box length and every      *)
(* coordinate are integers in units of sigma, so a box-normalised          *)
(* coordinate x is stored as the integer x * box and 0.5 is box / 2.       *)
(* dr_max and eps_box are given in thousandths (Milli).  Particles are     *)
(* numbered 1..n (the script numbers them 0..n-1).                         *)
(***************************************************************************)
EXTENDS Integers, Sequences, FiniteSets, TLC

\* ------------------------------------------------------------- bounds
MaxBlock == 2
MaxStep == 2

\* ---------------------------------------------------------- constants
Dim == 3
Milli == 1000

cnf_prefix == <<"c", "n", "f", ".">>
inp_tag == <<"i", "n", "p">>
out_tag == <<"o", "u", "t">>

\* A JSON value is [t |-> its Python type, v |-> an integer standing for it]:
\* a float is given in thousandths, True is 1 and False is 0.
Val(t, v) == [t |-> t, v |-> v]

\* defaults = {"nblock":10, "nstep":1000, "dr_max":0.15, "eps_box":0.005, "fast":True}
defaults ==
  [nblock |-> Val("int", 10),
   nstep |-> Val("int", 1000),
   dr_max |-> Val("float", 150),
   eps_box |-> Val("float", 5),
   fast |-> Val("bool", 1)]

\* ---------------------------------------------------------- rationals
\* A float that is not a lattice length is the fraction num/den.
Rat(a, b) == [num |-> a, den |-> b]

RECURSIVE GCD(_, _)
GCD(a, b) == IF b = 0 THEN a ELSE GCD(b, a % b)

\* a/b in lowest terms (a >= 0, b > 0)
Frac(a, b) == Rat(a \div GCD(a, b), b \div GCD(a, b))

\* ------------------------------------------------------ numpy helpers
\* np.rint of x/len: round to the nearest integer, ties to the even one.
rint(x, len) ==
  LET q == x \div len
      rem == x % len
  IN  IF 2 * rem < len THEN q
      ELSE IF 2 * rem > len THEN q + 1
      ELSE IF q % 2 = 0 THEN q ELSE q + 1

\* Mutant: the wrap subtracts the floor, which gives the range [0, 1).
pbc_Floor(vec, len) == [k \in 1..Dim |-> vec[k] - len * (vec[k] \div len)]

\* v - np.rint(v) componentwise on box-normalised v (periodic boundaries).
pbc(vec, len) == [k \in 1..Dim |-> vec[k] - len * rint(vec[k], len)]

\* Mutant: atom i is not taken out.
delete_Nothing(rr, i) == rr

\* np.delete(r, i, 0): the array of all the other atoms.
delete(rr, i) == [j \in 1..(Len(rr) - 1) |-> IF j < i THEN rr[j] ELSE rr[j + 1]]

RECURSIVE SumSq(_, _)
SumSq(vec, k) == IF k = 0 THEN 0 ELSE vec[k] * vec[k] + SumSq(vec, k - 1)

\* ------------------------------------------- mc_hs_{fast,slow}_module
\* A box length handed to the overlap routines is the rational
\* len.num / len.den (calculate passes box/(1.0+eps_box)).  Positions are in
\* units of the unscaled box, held as lattice integers of period per.
Real(x) == Rat(x, 1)

\* Squared minimum-image separation of a and b, in lattice units.
squaredDistance(a, b, per) ==
  SumSq(pbc([k \in 1..Dim |-> a[k] - b[k]], per), Dim)

\* rij_sq * box**2 < 1 with sigma = 1: rij_sq is sq / per**2.
InRange(sq, len, per) == sq * len.num * len.num < per * per * len.den * len.den

\* overlap_1 ( ri, box, r ): does ri overlap any of the atoms in r?
overlap_1(ri, len, rj, per) ==
  \E j \in 1..Len(rj) : InRange(squaredDistance(ri, rj[j], per), len, per)

\* overlap ( box, r ): does any pair i<j overlap?
overlap(len, rr, per) ==
  \E i \in 1..Len(rr) : \E j \in (i + 1)..Len(rr) :
     InRange(squaredDistance(rr[i], rr[j], per), len, per)

\* n_overlap ( box, r ): the number of overlapping pairs i<j.
n_overlap(len, rr, per) ==
  Cardinality({p \in (1..Len(rr)) \X (1..Len(rr)) :
                 /\ p[1] < p[2]
                 /\ InRange(squaredDistance(rr[p[1]], rr[p[2]], per), len, per)})

\* A float name that is not bound yet.
Unbound == Rat(0, 0)
RatEq(a, b) == a.num * b.den = b.num * a.den

\* ------------------------------------------------------- checkpoint tag
DigitChars == <<"0", "1", "2", "3", "4", "5", "6", "7", "8", "9">>

\* str(k) for k >= 0
RECURSIVE str(_)
str(k) == IF k < 10 THEN <<DigitChars[k + 1]>>
          ELSE Append(str(k \div 10), DigitChars[(k % 10) + 1])

\* s.zfill(w) for an unsigned s
RECURSIVE zfill(_, _)
zfill(s, w) == IF Len(s) >= w THEN s ELSE zfill(<<"0">> \o s, w)

\* Mutant: the fallback starts one block late (blk <= 1000).
BlockTag_OffByOne(k) == IF k <= 1000 THEN zfill(str(k), 3) ELSE <<"s", "a", "v">>

\* str(blk).zfill(3) if blk<1000 else 'sav'
BlockTag(k) == IF k < 1000 THEN zfill(str(k), 3) ELSE <<"s", "a", "v">>

\* ----------------------------------------------------------- the inputs
Keys == DOMAIN defaults
Item(k, t, v) == [key |-> k, t |-> t, v |-> v]
Object(items) == [kind |-> "object", items |-> items]

RunDoc(b, s, d) ==
  {Item("nblock", "int", b), Item("nstep", "int", s), Item("dr_max", "float", d)}

\* Runs that displace atoms: with dr_max = 1.0, zeta * dr_max reaches the
\* lattice displacements -1 and 0, with dr_max = 1.5 also 1.
MovingDocs ==
  {Object(RunDoc(2, 2, 1000)),
   Object({Item("nblock", "int", 1), Item("nstep", "int", 1), Item("dr_max", "float", 1500),
           Item("eps_box", "float", 10), Item("fast", "bool", 0)})}

\* What else standard input may hold: text that is no JSON, a JSON array,
\* and JSON objects: empty, with dr_max = 0.0, with an unknown key, with a
\* value of the wrong type.
StaticDocs ==
  {[kind |-> "invalid", items |-> {}], [kind |-> "array", items |-> {}]}
  \cup {Object({})}
  \cup {Object(RunDoc(b, s, 0)) : b \in (-1)..MaxBlock, s \in (-1)..MaxStep}
  \cup {Object(RunDoc(1, 1, 0) \cup {Item("nblok", "int", 5)}),
        Object({Item("title", "str", 0)}),
        Object(RunDoc(1, 1, 0) \cup {Item("nblock", "float", 2000)}),
        Object({Item("nstep", "bool", 1)}),
        Object({Item("dr_max", "int", 1), Item("colour", "str", 0)}),
        Object({Item("eps_box", "str", 0)}),
        Object({Item("fast", "int", 1)})}

JsonDocs == MovingDocs \cup StaticDocs

\* Configuration files cnf.inp: n, box and the positions in simulation units
\* (not yet wrapped into the box).  The small files hold every placement of
\* one or two atoms on the lattice points -1..1 of a box of length 2; the
\* large ones are a few placements of one to three atoms in a box of length
\* 10, some of them outside the box.
NAtoms == {1, 2}
Points(lo, hi) == [1..Dim -> lo..hi]
Diag(x) == [k \in 1..Dim |-> x]
File(len, rr) == [n |-> Len(rr), box |-> len, r |-> rr]
SmallFiles == UNION {{File(2, rr) : rr \in [1..m -> Points(-1, 1)]} : m \in NAtoms}
LargeFiles ==
  {File(10, <<Diag(7)>>),
   File(10, <<Diag(-5), Diag(0)>>),
   File(10, <<Diag(5), Diag(-5)>>),
   File(10, <<Diag(3), [Diag(3) EXCEPT ![1] = 4]>>),
   File(10, <<Diag(12), Diag(2)>>),
   File(10, <<Diag(-4), Diag(16)>>),
   File(10, <<Diag(0), Diag(3), Diag(-3)>>),
   File(10, <<Diag(0), Diag(3), Diag(3)>>)}

\* The files a run is followed on: a displacing run on every small file, any
\* other input on the large files.
CnfFiles(doc) == IF doc \in MovingDocs THEN SmallFiles ELSE LargeFiles

\* ------------------------------------------------------------ the state
VARIABLES
  pc,         \* position in the script
  err,        \* the message of the exception or exit that ended the run
  stdin,      \* what standard input holds
  nml,        \* json.load(sys.stdin): the items of the object
  warned,     \* the keys a Warning was printed for
  nblock, nstep, dr_max, eps_box, fast,
  n, box, r,  \* the configuration; r in box units, r[i][k] * box an integer
  sav_tag,
  blk,        \* the block loop's variable (0: not yet bound)
  stp,        \* steps started in this block (Python's stp + 1)
  i,          \* atoms tried in this sweep (Python's i + 1 after a trial)
  moves, m_ratio,
  variables,  \* the list [m_r, p_f] calculate returned last
  trials,     \* trial moves made so far
  swept,      \* while a sweep lasts: the positions its atoms tried had at its start
  log         \* calls made to the averaging and configuration modules

params == <<nblock, nstep, dr_max, eps_box, fast>>
config == <<n, box, r>>
loops == <<blk, stp, i, moves, m_ratio, trials, swept>>
vars == <<pc, err, stdin, nml, warned, params, config, sav_tag, loops, variables, log>>

Event(e, a) == [ev |-> e, arg |-> a]

Init ==
  /\ pc = "json"
  /\ err = ""
  /\ stdin \in JsonDocs
  /\ nml = {}
  /\ warned = {}
  /\ nblock = 0 /\ nstep = 0 /\ dr_max = 0 /\ eps_box = 0 /\ fast = FALSE
  /\ n = 0 /\ box = 0 /\ r = <<>>
  /\ sav_tag = <<"s", "a", "v">>
  /\ blk = 0 /\ stp = 0 /\ i = 0 /\ moves = 0 /\ m_ratio = Unbound /\ trials = 0 /\ swept = <<>>
  /\ variables = <<>>
  /\ log = <<>>

\* nml = json.load(sys.stdin); a JSONDecodeError prints and calls sys.exit()
LoadParameters ==
  /\ pc = "json"
  /\ IF stdin.kind = "invalid"
     THEN /\ pc' = "exit"
          /\ err' = "Exiting on Invalid JSON format"
          /\ nml' = nml
     ELSE /\ pc' = "typecheck"
          /\ err' = err
          /\ nml' = stdin.items
  /\ UNCHANGED <<stdin, warned, params, config, sav_tag, loops, variables, log>>

Has(items, k) == \E it \in items : it.key = k
Get(items, k) == CHOOSE it \in items : it.key = k
\* Mutant: isinstance instead of type equality (a bool passes for an int).
WrongType_IsInstance(items) ==
  {it \in items : /\ it.key \in Keys
                  /\ it.t # defaults[it.key].t
                  /\ ~(it.t = "bool" /\ defaults[it.key].t = "int")}

WrongType(items) == {it \in items : it.key \in Keys /\ it.t # defaults[it.key].t}
Unknown(items) == {it.key : it \in {x \in items : x.key \notin Keys}}

\* for key, val in nml.items(): assert the type of a known key, warn of an
\* unknown one.  The loop stops at the first wrong type, after the warnings
\* for the unknown keys that came before it (the items' order is free).
CheckParameters ==
  /\ pc = "typecheck"
  /\ IF stdin.kind # "object"
     THEN /\ pc' = "abort"
          /\ err' = "AttributeError"
          /\ warned' = warned
     ELSE IF WrongType(nml) # {}
     THEN /\ pc' = "abort"
          /\ err' = "has the wrong type"
          /\ warned' \in SUBSET Unknown(nml)
     ELSE /\ pc' = "assign"
          /\ err' = err
          /\ warned' = Unknown(nml)
  /\ UNCHANGED <<stdin, nml, params, config, sav_tag, loops, variables, log>>

\* Mutant: the input is ignored, every parameter is its default.
Param_IgnoresInput(items, k) == defaults[k].v

\* nml[key] if key in nml else defaults[key]
Param(items, k) == IF Has(items, k) THEN Get(items, k).v ELSE defaults[k].v

\* Set parameters to input values or defaults; import the overlap module,
\* introduction(), np.random.seed(), and write out the parameters.
SetParameters ==
  /\ pc = "assign"
  /\ nblock' = Param(nml, "nblock")
  /\ nstep' = Param(nml, "nstep")
  /\ dr_max' = Param(nml, "dr_max")
  /\ eps_box' = Param(nml, "eps_box")
  /\ fast' = (Param(nml, "fast") = 1)
  /\ pc' = "read"
  /\ UNCHANGED <<err, stdin, nml, warned, config, sav_tag, loops, variables, log>>

\* Mutant: the test of string is inverted, so a sample's move ratio is 0.0.
calculate_Inverted(string, ratio) ==
  [m_r |-> IF string # "" THEN ratio ELSE Rat(0, 1),
   p_f |-> Rat(3 * eps_box * n + Milli * n_overlap(Frac(box * Milli, Milli + eps_box), r, box),
               3 * eps_box * box * box * box)]

\* calculate ( string ): the variables of interest [m_r, p_f].
\*   vir = n_overlap ( box/(1.0+eps_box), r ) / (3.0*eps_box)
\*   vol = box**3 ; rho = n / vol ; p_f = rho + vir/vol
\* With eps_box = e/Milli this is (3*e*n + Milli*n_overlap) / (3*e*vol).
\* m_r is m_ratio (ratio: its value at the call) when no string is given and
\* 0.0 otherwise.
calculate(string, ratio) ==
  LET scaled == Frac(box * Milli, Milli + eps_box)
      novr == n_overlap(scaled, r, box)
      vol == box * box * box
  IN  [m_r |-> IF string = "" THEN ratio ELSE Rat(0, 1),
       p_f |-> Rat(3 * eps_box * n + Milli * novr, 3 * eps_box * vol)]

\* n, box, r = read_cnf_atoms ( cnf_prefix+inp_tag ); r = r / box;
\* r = r - np.rint ( r )
ReadConfiguration ==
  /\ pc = "read"
  /\ \E cnf \in CnfFiles(stdin) :
       /\ n' = cnf.n
       /\ box' = cnf.box
       /\ r' = [a \in 1..cnf.n |-> pbc(cnf.r[a], cnf.box)]
  /\ log' = Append(log, Event("read_cnf_atoms", cnf_prefix \o inp_tag))
  /\ pc' = "initial_check"
  /\ UNCHANGED <<err, stdin, nml, warned, params, sav_tag, loops, variables>>

\* Mutant: the initial assertion is missing.
InitialCheck_NoAssert ==
  /\ pc = "initial_check"
  /\ pc' = "initial_values"
  /\ UNCHANGED <<err, stdin, nml, warned, params, config, sav_tag, loops, variables, log>>

\* assert not overlap ( box, r ), 'Overlap in initial configuration'
InitialCheck ==
  /\ pc = "initial_check"
  /\ IF overlap(Real(box), r, box)
     THEN pc' = "abort" /\ err' = "Overlap in initial configuration"
     ELSE pc' = "initial_values" /\ err' = err
  /\ UNCHANGED <<stdin, nml, warned, params, config, sav_tag, loops, variables, log>>

\* variables = calculate ( 'Initial values' )
InitialValues ==
  /\ pc = "initial_values"
  /\ variables' = calculate("Initial values", m_ratio)
  /\ pc' = "run_begin"
  /\ UNCHANGED <<err, stdin, nml, warned, params, config, sav_tag, loops, log>>

\* run_begin ( variables )
RunBegin ==
  /\ pc = "run_begin"
  /\ log' = Append(log, Event("run_begin", <<>>))
  /\ pc' = "blk_loop"
  /\ UNCHANGED <<err, stdin, nml, warned, params, config, sav_tag, loops, variables>>

\* for blk in range(1,nblock+1): blk_begin()
\* Only the first MaxBlock blocks of a longer run are followed.
BlockLoop ==
  /\ pc = "blk_loop"
  /\ IF blk + 1 <= nblock
     THEN /\ blk + 1 <= MaxBlock
          /\ blk' = blk + 1
          /\ stp' = 0
          /\ log' = Append(log, Event("blk_begin", <<>>))
          /\ pc' = "stp_loop"
     ELSE /\ pc' = "run_end"
          /\ UNCHANGED <<blk, stp, log>>
  /\ UNCHANGED <<err, stdin, nml, warned, params, config, sav_tag, i, moves,
                 m_ratio, trials, swept, variables>>

\* Mutant: moves is not reset at the start of a step.
StepLoop_NoReset ==
  /\ pc = "stp_loop"
  /\ IF stp + 1 <= nstep
     THEN /\ stp + 1 <= MaxStep
          /\ stp' = stp + 1
          /\ i' = 0
          /\ pc' = "atom_loop"
     ELSE /\ pc' = "blk_end"
          /\ UNCHANGED <<stp, i>>
  /\ UNCHANGED <<err, stdin, nml, warned, params, config, sav_tag, blk, moves,
                 m_ratio, trials, swept, variables, log>>

\* Mutant: the step loop makes one round too many (range(nstep+1)).
StepLoop_OneMore ==
  /\ pc = "stp_loop"
  /\ IF stp + 1 <= nstep + 1
     THEN /\ stp + 1 <= MaxStep
          /\ stp' = stp + 1
          /\ moves' = 0
          /\ i' = 0
          /\ pc' = "atom_loop"
     ELSE /\ pc' = "blk_end"
          /\ UNCHANGED <<stp, moves, i>>
  /\ UNCHANGED <<err, stdin, nml, warned, params, config, sav_tag, blk,
                 m_ratio, trials, swept, variables, log>>

\* for stp in range(nstep): moves = 0
\* Only the first MaxStep steps of a longer block are followed.
StepLoop ==
  /\ pc = "stp_loop"
  /\ IF stp + 1 <= nstep
     THEN /\ stp + 1 <= MaxStep
          /\ stp' = stp + 1
          /\ moves' = 0
          /\ i' = 0
          /\ pc' = "atom_loop"
     ELSE /\ pc' = "blk_end"
          /\ UNCHANGED <<stp, moves, i>>
  /\ UNCHANGED <<err, stdin, nml, warned, params, config, sav_tag, blk,
                 m_ratio, trials, swept, variables, log>>

\* zeta * dr_max/box for zeta uniform on [-1,1), on the lattice: the integers
\* d with d = zeta * dr_max/Milli for such a zeta (d = 0 alone when dr_max is
\* less than one lattice unit).
Displacements ==
  {d \in (-(dr_max \div Milli) - 1)..((dr_max \div Milli) + 1) :
     \/ dr_max = 0 /\ d = 0
     \/ dr_max > 0 /\ -dr_max <= d * Milli /\ d * Milli < dr_max
     \/ dr_max < 0 /\ dr_max < d * Milli /\ d * Milli <= -dr_max}

\* random_translate_vector ( dr_max/box, r[i,:] ): r[i,:] + zeta * dr_max/box
random_translate_vector(zeta, old) == [k \in 1..Dim |-> old[k] + zeta[k]]

\* Mutant: the last of the other atoms is left out of the test.
Rejected_SkipsLast(ri, a) ==
  overlap_1(ri, Real(box), SubSeq(delete(r, a), 1, Len(r) - 2), box)

\* The configuration as it was when the sweep under way began.
Snapshot == [j \in 1..n |-> IF j <= Len(swept) THEN swept[j] ELSE r[j]]

\* Mutant: the trial position is tested against the positions the other
\* atoms had at the start of the sweep.
Rejected_TestsSnapshot(ri, a) == overlap_1(ri, Real(box), delete(Snapshot, a), box)

\* Mutant: the atom's old position is tested instead of the trial position.
Rejected_TestsOld(ri, a) == overlap_1(r[a], Real(box), delete(r, a), box)

\* The test of one trial position: overlap_1 ( ri, box, rj )
Rejected(ri, a) == overlap_1(ri, Real(box), delete(r, a), box)

\* Mutant: the trial position is stored before it is tested.
TrialMove_CommitsAlways ==
  /\ pc = "atom_loop"
  /\ i + 1 <= n
  /\ \E zeta \in [1..Dim -> Displacements] :
       LET a == i + 1
           ri == pbc(random_translate_vector(zeta, r[a]), box)
       IN  /\ r' = [r EXCEPT ![a] = ri]
           /\ moves' = IF ~Rejected(ri, a) THEN moves + 1 ELSE moves
  /\ i' = i + 1
  /\ trials' = trials + 1
  /\ swept' = IF i + 1 < n THEN Append(swept, r[i + 1]) ELSE <<>>
  /\ UNCHANGED <<pc, err, stdin, nml, warned, params, n, box, sav_tag, blk, stp,
                 m_ratio, variables, log>>

\* for i in range(n): one trial move of the next atom
\*   ri = random_translate_vector ( dr_max/box, r[i,:] ); ri = ri - np.rint ( ri )
\*   rj = np.delete(r,i,0)
\*   if not overlap_1 ( ri, box, rj ): r[i,:] = ri ; moves = moves + 1
TrialMove ==
  /\ pc = "atom_loop"
  /\ i + 1 <= n
  /\ \E zeta \in [1..Dim -> Displacements] :
       LET a == i + 1
           ri == pbc(random_translate_vector(zeta, r[a]), box)
       IN  IF ~Rejected(ri, a)
           THEN /\ r' = [r EXCEPT ![a] = ri]
                /\ moves' = moves + 1
           ELSE /\ UNCHANGED <<r, moves>>
  /\ i' = i + 1
  /\ trials' = trials + 1
  /\ swept' = IF i + 1 < n THEN Append(swept, r[i + 1]) ELSE <<>>
  /\ UNCHANGED <<pc, err, stdin, nml, warned, params, n, box, sav_tag, blk, stp,
                 m_ratio, variables, log>>

\* Mutant: the sample is calculated before m_ratio is updated.
StepEnd_StaleRatio ==
  /\ pc = "atom_loop"
  /\ i + 1 > n
  /\ m_ratio' = Rat(moves, n)
  /\ variables' = calculate("", m_ratio)
  /\ log' = Append(log, Event("blk_add", <<>>))
  /\ pc' = "stp_loop"
  /\ UNCHANGED <<err, stdin, nml, warned, params, config, sav_tag, blk, stp, i,
                 moves, trials, swept>>

\* m_ratio = moves / n ; variables = calculate() ; blk_add(variables)
StepEnd ==
  /\ pc = "atom_loop"
  /\ i + 1 > n
  /\ m_ratio' = Rat(moves, n)
  /\ variables' = calculate("", m_ratio')
  /\ log' = Append(log, Event("blk_add", <<>>))
  /\ pc' = "stp_loop"
  /\ UNCHANGED <<err, stdin, nml, warned, params, config, sav_tag, blk, stp, i,
                 moves, trials, swept>>

\* Mutant: the block is closed under its 0-based index.
BlockEnd_ZeroBased ==
  /\ pc = "blk_end"
  /\ log' = Append(log, Event("blk_end", <<blk - 1>>))
  /\ pc' = "save"
  /\ UNCHANGED <<err, stdin, nml, warned, params, config, sav_tag, loops, variables>>

\* blk_end(blk)
BlockEnd ==
  /\ pc = "blk_end"
  /\ log' = Append(log, Event("blk_end", <<blk>>))
  /\ pc' = "save"
  /\ UNCHANGED <<err, stdin, nml, warned, params, config, sav_tag, loops, variables>>

\* Mutant: the block's configuration is not saved.
SaveBlock_NoWrite ==
  /\ pc = "save"
  /\ sav_tag' = BlockTag(blk)
  /\ pc' = "blk_loop"
  /\ UNCHANGED <<err, stdin, nml, warned, params, config, loops, variables, log>>

\* sav_tag = str(blk).zfill(3) if blk<1000 else 'sav'
\* write_cnf_atoms ( cnf_prefix+sav_tag, n, box, r*box )
SaveBlock ==
  /\ pc = "save"
  /\ sav_tag' = BlockTag(blk)
  /\ log' = Append(log, Event("write_cnf_atoms", cnf_prefix \o sav_tag'))
  /\ pc' = "blk_loop"
  /\ UNCHANGED <<err, stdin, nml, warned, params, config, loops, variables>>

\* run_end()
RunEnd ==
  /\ pc = "run_end"
  /\ log' = Append(log, Event("run_end", <<>>))
  /\ pc' = "final_values"
  /\ UNCHANGED <<err, stdin, nml, warned, params, config, sav_tag, loops, variables>>

\* Mutant: the final overlap check is left out.
FinalValues_SkipsCheck ==
  /\ pc = "final_values"
  /\ variables' = calculate("Final values", m_ratio)
  /\ pc' = "write_out"
  /\ UNCHANGED <<err, stdin, nml, warned, params, config, sav_tag, loops, log>>

\* variables = calculate('Final values')
FinalValues ==
  /\ pc = "final_values"
  /\ variables' = calculate("Final values", m_ratio)
  /\ pc' = "final_check"
  /\ UNCHANGED <<err, stdin, nml, warned, params, config, sav_tag, loops, log>>

\* assert not overlap ( box, r ), 'Overlap in final configuration'
FinalCheck ==
  /\ pc = "final_check"
  /\ IF overlap(Real(box), r, box)
     THEN pc' = "abort" /\ err' = "Overlap in final configuration"
     ELSE pc' = "write_out" /\ err' = err
  /\ UNCHANGED <<stdin, nml, warned, params, config, sav_tag, loops, variables, log>>

\* write_cnf_atoms ( cnf_prefix+out_tag, n, box, r*box ) ; conclusion()
WriteOut ==
  /\ pc = "write_out"
  /\ log' = Append(log, Event("write_cnf_atoms", cnf_prefix \o out_tag))
  /\ pc' = "done"
  /\ UNCHANGED <<err, stdin, nml, warned, params, config, sav_tag, loops, variables>>

Next ==
  \/ LoadParameters
  \/ CheckParameters
  \/ SetParameters
  \/ ReadConfiguration
  \/ InitialCheck
  \/ InitialValues
  \/ RunBegin
  \/ BlockLoop
  \/ StepLoop
  \/ TrialMove
  \/ StepEnd
  \/ BlockEnd
  \/ SaveBlock
  \/ RunEnd
  \/ FinalValues
  \/ FinalCheck
  \/ WriteOut

Spec == Init /\ [][Next]_vars

\* ----------------------------------------------------- for the claims
Last(s) == s[Len(s)]
EventsOf(e) == {k \in 1..Len(log) : log[k].ev = e}
WriteAt(lg, k, tag) == lg[k].ev = "write_cnf_atoms" /\ lg[k].arg = cnf_prefix \o tag
IsWrite(k, tag) == WriteAt(log, k, tag)

\* Two distinct atoms closer than the diameter 1 (one lattice unit).
Overlapping ==
  \E a \in 1..n : \E b \in 1..n : a # b /\ squaredDistance(r[a], r[b], box) < 1

\* The script is past the initial overlap check.
Started ==
  pc \in {"initial_values", "run_begin", "blk_loop", "stp_loop", "atom_loop",
          "blk_end", "save", "run_end", "final_values", "final_check",
          "write_out", "done"}

\* Nothing of the run has happened: no call but the reading of cnf.inp.
Quiet ==
  /\ trials = 0
  /\ \A k \in 1..Len(log) : log[k].ev = "read_cnf_atoms"

\* C1: once the loaded configuration has passed the overlap check, no two
\* distinct atoms are ever closer than the diameter 1, whatever moves were
\* accepted or rejected, and the final overlap assertion never fails.
C1_NoOverlapEver ==
  /\ Started => ~Overlapping
  /\ err # "Overlap in final configuration"

C1_Witness ==
  /\ pc = "final_check" /\ n = 2 /\ trials = 8 /\ moves = 2
  /\ squaredDistance(r[1], r[2], box) = 1

\* C2: a configuration with two overlapping atoms makes the initial check
\* abort the run, and once aborted nothing more happens: no run_begin, no
\* blk_begin, no trial move, no sample and no checkpoint write.
C2_OverlapAbortsBeforeRun ==
  [][/\ (pc = "initial_check" /\ Overlapping)
          => (pc' = "abort" /\ err' = "Overlap in initial configuration" /\ Quiet')
     /\ (pc = "abort") => UNCHANGED vars]_vars

C2_Witness ==
  /\ pc = "abort" /\ err = "Overlap in initial configuration"
  /\ n = 2 /\ Overlapping /\ Quiet

\* A step has just ended: variables is the sample handed to blk_add.
SampleTaken == pc = "stp_loop" /\ stp >= 1

C3_Scenario == Started /\ dr_max = 0 /\ n = 2 /\ box = 10

\* C3, as stated: with dr_max = 0, two atoms and box = 10, the move ratio
\* sampled at every step is 0.
C3_Original ==
  C3_Scenario =>
    /\ m_ratio # Unbound => RatEq(m_ratio, Rat(0, 1))
    /\ SampleTaken => RatEq(variables.m_r, Rat(0, 1))

\* C3, amended: with dr_max = 0, two atoms without overlap and box = 10,
\* every trial is a zero displacement, which is accepted, and the move ratio
\* sampled at every step is 1.
C3_ZeroDisplacementAccepted ==
  C3_Scenario =>
    /\ pc = "atom_loop" => moves = i
    /\ m_ratio # Unbound => RatEq(m_ratio, Rat(1, 1))
    /\ SampleTaken => RatEq(variables.m_r, Rat(1, 1))

C3_Witness ==
  /\ C3_Scenario /\ SampleTaken /\ blk = 2 /\ stp = 2
  /\ variables.m_r = Rat(2, 2)

\* C4: with a single atom every trial move is accepted and the move ratio
\* sampled at every step is exactly 1.
C4_SingleAtomAlwaysAccepted ==
  (Started /\ n = 1) =>
    /\ pc = "atom_loop" => moves = i
    /\ m_ratio # Unbound => m_ratio = Rat(1, 1)
    /\ SampleTaken => variables.m_r = Rat(1, 1)

C4_Witness ==
  /\ Started /\ n = 1 /\ dr_max = 1000 /\ SampleTaken /\ blk = 2 /\ stp = 2
  /\ variables.m_r = Rat(1, 1)
  /\ r[1] = Diag(-1)

\* C5: in every step moves starts at 0 and grows by at most one per atom
\* tried, so 0 <= moves <= n, and the move ratio forwarded lies in [0,1].
C5_MoveRatioInUnitInterval ==
  (Started /\ n >= 1) =>
    /\ pc = "atom_loop" => (0 <= moves /\ moves <= i /\ i <= n)
    /\ 0 <= moves /\ moves <= n
    /\ m_ratio # Unbound =>
         (m_ratio.den = n /\ 0 <= m_ratio.num /\ m_ratio.num <= m_ratio.den)
    /\ SampleTaken =>
         (variables.m_r.den = n /\ 0 <= variables.m_r.num
            /\ variables.m_r.num <= variables.m_r.den)

C5_Witness ==
  /\ pc = "atom_loop" /\ n = 2 /\ i = 2 /\ moves = 1 /\ stp = 2
  /\ m_ratio = Rat(2, 2)

\* The positions one lattice step or less away from atom a, wrapped.
NearPositions(a) ==
  {pbc(random_translate_vector(z, r[a]), box) : z \in [1..Dim -> (-1)..1]}

\* The configuration with atom a moved to p.
Moved(a, p) == [r EXCEPT ![a] = p]

\* The atoms a trial position is about to be tested for: every atom of a
\* configuration just read, the next atom of a sweep.
Candidates ==
  IF pc = "initial_check" THEN 1..n
  ELSE IF pc = "atom_loop" /\ i < n THEN {i + 1}
  ELSE {}

\* C6, as stated: for every configuration, atom a and trial position p, the
\* test of p against all atoms but a gives the verdict of the whole
\* configuration test with atom a moved to p.
C6_Original ==
  \A a \in Candidates : \A p \in NearPositions(a) :
    Rejected(p, a) <=> overlap(Real(box), Moved(a, p), box)

\* C6, amended: the two verdicts agree for every configuration in which
\* the atoms other than a do not overlap one another.
C6_SingleTestAgreesWithWholeTest ==
  \A a \in Candidates : \A p \in NearPositions(a) :
    ~overlap(Real(box), delete(r, a), box) =>
      (Rejected(p, a) <=> overlap(Real(box), Moved(a, p), box))

\* A trial position that is rejected and one that is not, for one atom.
C6_Witness ==
  /\ pc = "atom_loop" /\ n = 2 /\ i = 1 /\ dr_max = 1000
  /\ \E p \in NearPositions(2) :
       Rejected(p, 2) /\ overlap(Real(box), Moved(2, p), box)
  /\ \E p \in NearPositions(2) :
       ~Rejected(p, 2) /\ ~overlap(Real(box), Moved(2, p), box)

\* What C7 says of the log of a completed run, but for the number of writes:
\* every blk_end(k) is followed at once by the write of block k's tag, every
\* write follows a blk_end or, the last one, run_end, and the blocks closed
\* are 1..nblock.
C7_Sequence ==
  /\ \A j \in EventsOf("blk_end") :
       /\ IsWrite(j + 1, BlockTag(log[j].arg[1]))
       /\ log[j + 2].ev \in {"blk_begin", "run_end"}
  /\ \A k \in EventsOf("write_cnf_atoms") :
       \/ log[k - 1].ev = "blk_end"
       \/ log[k - 1].ev = "run_end" /\ k = Len(log) /\ IsWrite(k, out_tag)
  /\ Last(log).ev = "write_cnf_atoms"
  /\ {log[j].arg[1] : j \in EventsOf("blk_end")} = 1..nblock
  /\ Cardinality(EventsOf("blk_end")) = Cardinality(1..nblock)

\* Inside the step loop the last call is never a checkpoint write.
C7_NoWriteInStepLoop ==
  pc \in {"stp_loop", "atom_loop"} => Last(log).ev \in {"blk_begin", "blk_add"}

\* C7, as stated: a run that completes makes exactly nblock + 1 checkpoint
\* writes, one after each blk_end(k) and before the next blk_begin, and one
\* with the output tag after run_end; none inside the step loop.
C7_Original ==
  /\ C7_NoWriteInStepLoop
  /\ pc = "done" =>
       /\ Cardinality(EventsOf("write_cnf_atoms")) = nblock + 1
       /\ C7_Sequence

\* C7, amended: the same for nblock >= 0; for a negative nblock the only
\* write is the final one.
C7_CheckpointWrites ==
  /\ C7_NoWriteInStepLoop
  /\ pc = "done" =>
       /\ Cardinality(EventsOf("write_cnf_atoms")) = (IF nblock >= 0 THEN nblock + 1 ELSE 1)
       /\ C7_Sequence

C7_Witness ==
  /\ pc = "done" /\ nblock = 2 /\ nstep = 2 /\ n = 2 /\ dr_max = 1000
  /\ Cardinality(EventsOf("write_cnf_atoms")) = 3

\* ------------------------------------------------- the tag of a block
\* Block k's tag is a function of k alone.  It is followed for every k up to
\* TagBlocks from the state in which block k of a run without steps
\* (nstep = 0) has just been closed.
TagBlocks == 1005

TagLog(k) ==
  [j \in 1..(3 * k + 1) |->
     IF j = 1 THEN Event("read_cnf_atoms", cnf_prefix \o inp_tag)
     ELSE IF j = 2 THEN Event("run_begin", <<>>)
     ELSE LET q == ((j - 3) \div 3) + 1
              ph == (j - 3) % 3
          IN  IF ph = 0 THEN Event("blk_begin", <<>>)
              ELSE IF ph = 1 THEN Event("blk_end", <<q>>)
              ELSE Event("write_cnf_atoms", cnf_prefix \o BlockTag(q))]

InitTag ==
  /\ pc = "save"
  /\ err = ""
  /\ stdin = Object({Item("nblock", "int", TagBlocks), Item("nstep", "int", 0)})
  /\ nml = stdin.items
  /\ warned = {}
  /\ nblock = TagBlocks /\ nstep = 0 /\ dr_max = 150 /\ eps_box = 5 /\ fast = TRUE
  /\ n = 1 /\ box = 10 /\ r = <<Diag(-3)>>
  /\ blk \in 1..TagBlocks
  /\ sav_tag = (IF blk = 1 THEN <<"s", "a", "v">> ELSE BlockTag(blk - 1))
  /\ stp = 0 /\ i = 0 /\ moves = 0 /\ m_ratio = Unbound /\ trials = 0 /\ swept = <<>>
  /\ variables = [m_r |-> Rat(0, 1), p_f |-> Rat(15, 15000)]
  /\ log = TagLog(blk)

SpecTag == InitTag /\ [][SaveBlock]_vars

DigitOf(c) == CHOOSE d \in 0..9 : DigitChars[d + 1] = c
IsDigit(c) == \E d \in 0..9 : DigitChars[d + 1] = c

\* C8: the tag of block k is k in decimal, zero-padded to width 3, for k in
\* 1..999 (so different blocks have different tags), it is 'sav' from block
\* 1000 on, and it is never 'inp' or 'out'.
C8_BlockTag ==
  pc = "blk_loop" =>
    /\ blk <= 999 =>
         /\ Len(sav_tag) = 3
         /\ \A j \in 1..3 : IsDigit(sav_tag[j])
         /\ 100 * DigitOf(sav_tag[1]) + 10 * DigitOf(sav_tag[2]) + DigitOf(sav_tag[3]) = blk
    /\ blk >= 1000 => sav_tag = <<"s", "a", "v">>
    /\ sav_tag # inp_tag /\ sav_tag # out_tag
    /\ IsWrite(Len(log), sav_tag)

C8_Witness ==
  pc = "blk_loop" /\ blk = 1000 /\ sav_tag = <<"s", "a", "v">> /\ sav_tag # BlockTag(999)

\* C9: after the last block come run_end, then the overlap check of the whole
\* configuration, then the final write; the final write is made only after
\* a check that found no overlap, and a check that finds one aborts the run
\* with nothing written.
C9_FinalSequence ==
  [][/\ pc' = "final_values" => (pc = "run_end" /\ Last(log').ev = "run_end")
     /\ pc' = "final_check" => (pc = "final_values" /\ log' = log)
     /\ pc' = "write_out" => (pc = "final_check" /\ ~Overlapping /\ log' = log)
     /\ (pc = "final_check" /\ Overlapping) => (pc' = "abort" /\ log' = log)
     /\ (Len(log') > Len(log) /\ WriteAt(log', Len(log'), out_tag))
          => (pc = "write_out" /\ pc' = "done" /\ Last(log).ev = "run_end")
     /\ pc' = "done" => WriteAt(log', Len(log'), out_tag)]_vars

C9_Witness ==
  /\ pc = "done" /\ n = 2 /\ dr_max = 1000 /\ ~Overlapping
  /\ IsWrite(Len(log), out_tag) /\ log[Len(log) - 1].ev = "run_end"

\* The type a recognised key must have.
RequiredType(k) ==
  IF k \in {"nblock", "nstep"} THEN "int"
  ELSE IF k \in {"dr_max", "eps_box"} THEN "float"
  ELSE "bool"

Malformed ==
  \/ stdin.kind = "invalid"
  \/ /\ stdin.kind = "object"
     /\ \E it \in stdin.items :
          /\ it.key \in {"nblock", "nstep", "dr_max", "eps_box", "fast"}
          /\ it.t # RequiredType(it.key)

\* C10: input that is no JSON, or that gives a recognised key a value of
\* another type than its default's, ends the program before the simulation:
\* the configuration is not read, run_begin is not called, no trial move is
\* made and no checkpoint is written.
C10_MalformedInputAborts ==
  Malformed =>
    /\ pc \in {"json", "typecheck", "exit", "abort"}
    /\ pc = "exit" => err = "Exiting on Invalid JSON format"
    /\ pc = "abort" => err = "has the wrong type"
    /\ log = <<>> /\ trials = 0 /\ n = 0 /\ r = <<>>

C10_Witness ==
  /\ pc = "abort" /\ err = "has the wrong type" /\ warned = {"colour"}
  /\ \E it \in stdin.items : it.key = "dr_max" /\ it.t = "int"

\* The five parameters, their documented defaults (reals in thousandths,
\* true as 1) and the values the run holds for them.
ParamNames == {"nblock", "nstep", "dr_max", "eps_box", "fast"}
Documented == [nblock |-> 10, nstep |-> 1000, dr_max |-> 150, eps_box |-> 5, fast |-> 1]
Held ==
  [nblock |-> nblock, nstep |-> nstep, dr_max |-> dr_max, eps_box |-> eps_box,
   fast |-> IF fast THEN 1 ELSE 0]
Supplied(k) == {it \in stdin.items : it.key = k}
ParamsSet == pc \notin {"json", "typecheck", "assign", "exit", "abort"} \/ n > 0

\* C11: on a JSON object without a wrongly typed parameter, a key that is
\* none of the five parameters only gets a warning: the program does not
\* exit and fails no type assertion, every parameter that was not supplied
\* holds its default 10, 1000, 0.15, 0.005, true, and every supplied one
\* holds the supplied value.
C11_UnknownKeyOnlyWarns ==
  (stdin.kind = "object" /\ ~Malformed) =>
    /\ pc # "exit"
    /\ pc = "abort" => err = "Overlap in initial configuration"
    /\ pc \notin {"json", "typecheck"} =>
         warned = {it.key : it \in {x \in stdin.items : x.key \notin ParamNames}}
    /\ ParamsSet =>
         \A k \in ParamNames :
           /\ Supplied(k) = {} => Held[k] = Documented[k]
           /\ \A it \in Supplied(k) : Held[k] = it.v

C11_Witness ==
  /\ pc = "done" /\ warned = {"nblok"}
  /\ \E it \in stdin.items : it.key = "nblok"
  /\ nblock = 1 /\ nstep = 1 /\ dr_max = 0 /\ eps_box = 5 /\ fast
  /\ trials >= 1

\* The configuration has been read and wrapped.
Loaded == n > 0

\* C12, as stated: after the load every coordinate of every stored position
\* lies in the half-open interval [-0.5, 0.5) (a stored coordinate x is the
\* lattice integer x * box).
C12_Original ==
  Loaded => \A a \in 1..n : \A k \in 1..Dim : -box <= 2 * r[a][k] /\ 2 * r[a][k] < box

\* C12, amended: every stored coordinate lies in the closed interval
\* [-0.5, 0.5]; np.rint rounds a tie to the even integer, so the wrap at the
\* load and the wrap of a trial position both leave 0.5 where it is.
C12_WrappedIntoClosedInterval ==
  Loaded => \A a \in 1..n : \A k \in 1..Dim : -box <= 2 * r[a][k] /\ 2 * r[a][k] <= box

\* After accepted moves one atom has a coordinate 0.5 and one -0.5.
C12_Witness ==
  /\ pc = "stp_loop" /\ n = 2 /\ dr_max = 1500 /\ moves = 2
  /\ \E k \in 1..Dim : 2 * r[1][k] = box
  /\ \E k \in 1..Dim : 2 * r[2][k] = -box

\* The trial positions of atom a: r[a] displaced by any zeta * dr_max/box,
\* wrapped.
TrialPositions(a) ==
  {pbc(random_translate_vector(z, r[a]), box) : z \in [1..Dim -> Displacements]}

\* C13: a step that makes a trial move of atom a = i + 1 either is a
\* rejection (an overlap was reported for some trial position): the whole
\* configuration and moves are unchanged; or an acceptance: r[a] becomes a
\* trial position for which no overlap is reported, every other position is
\* unchanged and moves grows by exactly 1.  n and box never change.
C13_TrialMoveFrame ==
  [][trials' # trials =>
       /\ trials' = trials + 1 /\ i' = i + 1
       /\ n' = n /\ box' = box /\ Len(r') = n
       /\ \A j \in 1..n : j # i + 1 => r'[j] = r[j]
       /\ \/ /\ moves' = moves /\ r' = r
             /\ \E p \in TrialPositions(i + 1) : overlap_1(p, Real(box), delete(r, i + 1), box)
          \/ /\ moves' = moves + 1
             /\ r'[i + 1] \in TrialPositions(i + 1)
             /\ ~overlap_1(r'[i + 1], Real(box), delete(r, i + 1), box)]_vars

\* In the first sweep atom 1 has moved and atom 2 was rejected, or the
\* other way round.
C13_Witness ==
  /\ pc = "atom_loop" /\ n = 2 /\ i = 2 /\ moves = 1 /\ trials = 2
  /\ dr_max = 1000 /\ box = 2

\* p is closer than the diameter to the position q.
Touches(p, q) == InRange(squaredDistance(p, q, box), Real(box), box)

\* C14: a sweep starts with atom 1, every trial is of the atom after the last
\* one tried, and the sample is taken only after atom n; the position an
\* accepted trial stores is clear of the positions all other atoms have at
\* that moment (moved earlier in this sweep or not yet tried), and a
\* rejection is of a trial position that touches one of those.
C14_SweepReadsCurrentPositions ==
  [][/\ (pc = "stp_loop" /\ pc' = "atom_loop") => (i' = 0 /\ swept' = <<>>)
     /\ (pc = "atom_loop" /\ pc' = "stp_loop") => i = n
     /\ trials' # trials =>
          /\ Len(swept) = i /\ i' = i + 1 /\ i' <= n
          /\ \A j \in 1..n : j # i' => r'[j] = r[j]
          /\ moves' # moves =>
               \A j \in 1..n : j # i' => ~Touches(r'[i'], r[j])
          /\ moves' = moves =>
               \E p \in TrialPositions(i') : \E j \in 1..n : j # i' /\ Touches(p, r[j])]_vars

\* Atom 1 has moved in this sweep and atom 2 is next: one of its trial
\* positions is where atom 1 was (free now) and one is where atom 1 is.
C14_Witness ==
  /\ pc = "atom_loop" /\ n = 2 /\ i = 1 /\ moves = 1 /\ swept # <<r[1]>>
  /\ Snapshot[1] \in TrialPositions(2) /\ ~Rejected(Snapshot[1], 2)
  /\ r[1] \in TrialPositions(2) /\ Rejected(r[1], 2)

\* The samples forwarded so far: the calls of blk_add.
Samples == Cardinality(EventsOf("blk_add"))

\* The run is short enough to be followed to its end.
Followed == nblock <= MaxBlock /\ nstep <= MaxStep

\* range(k) and range(1,k+1) make max(k, 0) rounds.
Rounds(k) == IF k > 0 THEN k ELSE 0

\* The statements a run has still to execute before it is done, when blk
\* blocks have begun, stp steps of the block and i trials of the step.
SweepCost == n + 2
BlockCost == Rounds(nstep) * SweepCost + 4
AfterBlock == (Rounds(nblock) - blk) * BlockCost + 5
AfterStep == (Rounds(nstep) - stp) * SweepCost + 3 + AfterBlock
Remaining ==
  CASE pc = "initial_values" -> Rounds(nblock) * BlockCost + 7
    [] pc = "run_begin" -> Rounds(nblock) * BlockCost + 6
    [] pc = "blk_loop" -> AfterBlock
    [] pc = "stp_loop" -> AfterStep
    [] pc = "atom_loop" -> (n - i) + 1 + AfterStep
    [] pc = "blk_end" -> 2 + AfterBlock
    [] pc = "save" -> 1 + AfterBlock
    [] pc = "run_end" -> 4
    [] pc = "final_values" -> 3
    [] pc = "final_check" -> 2
    [] pc = "write_out" -> 1
    [] OTHER -> 0

\* The run terminates: past the initial check every statement brings the end
\* one statement nearer, the end is the normal one, and a run short enough
\* to be followed always has a next statement until then.
Terminates ==
  /\ [][Started => (Started' /\ Remaining' = Remaining - 1)]_vars
  /\ [](Started => (Remaining >= 0 /\ (Remaining = 0 <=> pc = "done")))
  /\ []((Started /\ Followed /\ pc # "done") => ENABLED Next)

IsAveraging(e) == e.ev \in {"run_begin", "blk_begin", "blk_add", "blk_end", "run_end"}
Averaging == SelectSeq(log, IsAveraging)

\* The j-th call of a run of B blocks of S steps: run_begin, then for
\* k = 1..B blk_begin, S times blk_add, blk_end(k), then run_end.
ProtocolAt(j, B, S) ==
  LET k == ((j - 2) \div (S + 2)) + 1
      ph == (j - 2) % (S + 2)
  IN  IF j = 1 THEN Event("run_begin", <<>>)
      ELSE IF k > B THEN Event("run_end", <<>>)
      ELSE IF ph = 0 THEN Event("blk_begin", <<>>)
      ELSE IF ph = S + 1 THEN Event("blk_end", <<k>>)
      ELSE Event("blk_add", <<>>)
ProtocolLen(B, S) == B * (S + 2) + 2

\* The calls made so far are the first calls of the protocol, all of them
\* once the run is done, and a sample is added only after a whole sweep:
\* every sample stands for n trials.
FollowsProtocol(B, S) ==
  /\ Len(Averaging) <= ProtocolLen(B, S)
  /\ \A j \in 1..Len(Averaging) : Averaging[j] = ProtocolAt(j, B, S)
  /\ pc = "done" => Len(Averaging) = ProtocolLen(B, S)
  /\ Started => trials = Samples * n + (IF pc = "atom_loop" THEN i ELSE 0)

\* The blk_add calls of the block that the blk_end at j of the log closes.
AddsInBlock(j) ==
  LET begun == CHOOSE b \in EventsOf("blk_begin") :
                 b < j /\ \A c \in EventsOf("blk_begin") : c < j => c <= b
  IN  Cardinality({k \in EventsOf("blk_add") : begun < k /\ k < j})

\* C16, as stated: run_begin once before any block; for k = 1..nblock in
\* increasing order blk_begin, exactly nstep calls of blk_add, blk_end(k);
\* then run_end once; no blk_add outside a block and no nested blocks.
C16_Original ==
  /\ FollowsProtocol(Rounds(nblock), Rounds(nstep))
  /\ \A j \in EventsOf("blk_end") : AddsInBlock(j) = nstep

\* C16, amended: the same with max(nstep, 0) calls of blk_add in a block.
C16_AveragingProtocol ==
  /\ FollowsProtocol(Rounds(nblock), Rounds(nstep))
  /\ \A j \in EventsOf("blk_end") : AddsInBlock(j) = Rounds(nstep)

C16_Witness ==
  /\ pc = "done" /\ nblock = 2 /\ nstep = 2 /\ n = 2 /\ dr_max = 1000
  /\ Len(Averaging) = 10
  /\ Averaging[5] = Event("blk_end", <<1>>) /\ Averaging[9] = Event("blk_end", <<2>>)
  /\ Averaging[10] = Event("run_end", <<>>)

\* The sentinel 0.0 of a report made outside a move context.
Sentinel == Rat(0, 1)

\* C17: the initial and the final report hold the move ratio 0; the count
\* of accepted moves starts at 0 in every step, and the sample handed to
\* blk_add at the end of a step holds that step's moves / n.
C17_MoveRatioOfTheStep ==
  /\ [][/\ pc = "initial_values" => variables'.m_r = Sentinel
        /\ pc = "final_values" => variables'.m_r = Sentinel
        /\ (pc = "stp_loop" /\ pc' = "atom_loop") => moves' = 0
        /\ Len(log') > Len(log) /\ Last(log').ev = "blk_add" =>
             /\ pc = "atom_loop" /\ i = n /\ moves' = moves
             /\ variables'.m_r = Rat(moves, n)]_vars
  /\ [](pc \in {"run_begin", "final_check", "write_out", "done"} => variables.m_r = Sentinel)
  /\ [](SampleTaken => (variables.m_r = Rat(moves, n) /\ Last(log).ev = "blk_add"))

\* The last step of the run accepted one move of two: its sample held 1/2
\* and the final report holds 0.
C17_Witness ==
  /\ pc = "done" /\ n = 2 /\ nblock = 2 /\ nstep = 2 /\ Samples = 4
  /\ moves = 1 /\ m_ratio = Rat(1, 2) /\ variables.m_r = Sentinel

\* What write_cnf_atoms ( name, n, box, r*box ) is given: on the lattice
\* r*box is the stored integer itself.
Written == [n |-> n, box |-> box, r |-> r]

\* What reading a file gives: r / box, wrapped (as in ReadConfiguration).
ReadBack(cnf) == [a \in 1..cnf.n |-> pbc(cnf.r[a], cnf.box)]

\* C18: once read, n and box never change, and every configuration handed
\* to write_cnf_atoms (each block's and the final one) holds n positions
\* that, read back, are the stored ones and have no overlap: the initial
\* check of a run started from that file passes.
C18_CheckpointsPassInitialCheck ==
  [][/\ n > 0 => (n' = n /\ box' = box /\ Len(r') = n)
     /\ (Len(log') > Len(log) /\ Last(log').ev = "write_cnf_atoms") =>
          /\ Written' = Written
          /\ Len(Written.r) = Written.n
          /\ ReadBack(Written) = r
          /\ ~overlap(Real(Written.box), ReadBack(Written), Written.box)]_vars

\* Block 1 has just been saved after accepted moves, with the two atoms one
\* diameter apart and a coordinate on the edge of the box.
C18_Witness ==
  /\ pc = "blk_loop" /\ blk = 1 /\ IsWrite(Len(log), BlockTag(1))
  /\ n = 2 /\ dr_max = 1000 /\ moves >= 1
  /\ squaredDistance(r[1], r[2], box) = 1
  /\ \E k \in 1..Dim : 2 * r[1][k] = -box

=============================================================================
